---- MODULE Spec2Model ----
(***************************************************************************)
(* Model of the ArmourEye AI inference service                             *)
(* (backend/ai/inference/server.py): the vector-store lookup with its      *)
(* fallback tiers, the document normalizer, the runtime-exposure           *)
(* correlator and the report builder.                                      *)
(*                                                                         *)
(* Python values are modelled as strings, numbers, sequences and records.  *)
(* None and an absent dictionary key are both the value NoValue: every     *)
(* read in the code goes through dict.get, which makes the two alike.      *)
(***************************************************************************)
EXTENDS Integers, Sequences, FiniteSets, TLC

NoValue == "<none>"

\* Longest candidate list handed to _build_report when it is checked alone.
MaxDocs == 3
\* Longest answer the vector-store backend gives to one query.
MaxBackendDocs == 2

SeqsUpTo(S, n) == UNION {[1..k -> S] : k \in 0..n}

Range(s) == {s[i] : i \in 1..Len(s)}

\* Python truthiness of an optional string: None and "" are falsy.
Falsy(v) == v = NoValue \/ v = ""

(***************************************************************************)
(* Documents.  meta = "none" is a document whose metadata attribute is     *)
(* None; meta = "dict" is one whose metadata is a dictionary, with absent  *)
(* keys read as NoValue.                                                   *)
(***************************************************************************)
PackageNames == {"libpq5", "openssl"}
PackageVersions == {"9.6.10-0+deb9u1"}
CveIds == {NoValue, "", "N/A", "CVE-1", "CVE-2"}
SeverityValues == {NoValue, "CRITICAL", "HIGH", "LOW"}

NoMetadataDoc ==
  [meta |-> "none", package_name |-> NoValue, cve_id |-> NoValue,
   severity |-> NoValue]

\* Candidates of one package, as _build_report may be handed them.
CandidateDocs ==
  [meta : {"dict"}, package_name : {"libpq5"}, cve_id : CveIds,
   severity : SeverityValues] \cup {NoMetadataDoc}

\* What the backend may answer: documents of the queried package, of another
\* package, without a package name, and without metadata.
BackendDocs ==
  [meta : {"dict"}, package_name : PackageNames \cup {NoValue},
   cve_id : {"N/A", "CVE-1", "CVE-2"}, severity : {"CRITICAL", "LOW"}]
  \cup {NoMetadataDoc}

\* A backend call either raises or returns a list of documents.
BackendResponses ==
  {[error |-> TRUE, docs |-> <<>>]}
  \cup [error : {FALSE}, docs : SeqsUpTo(BackendDocs, MaxBackendDocs)]

\* getattr(doc, "metadata", {}) or {}
MetadataOrEmpty(doc) ==
  IF doc.meta = "none"
  THEN [package_name |-> NoValue, cve_id |-> NoValue, severity |-> NoValue,
        description |-> NoValue, exploits_json |-> "[]", fixes_json |-> "[]"]
  ELSE [package_name |-> doc.package_name, cve_id |-> doc.cve_id,
        severity |-> doc.severity,
        description |-> IF "description" \in DOMAIN doc THEN doc.description
                        ELSE NoValue,
        exploits_json |-> IF "exploits_json" \in DOMAIN doc
                          THEN doc.exploits_json ELSE "[]",
        fixes_json |-> IF "fixes_json" \in DOMAIN doc
                       THEN doc.fixes_json ELSE "[]"]

(***************************************************************************)
(* _format_docs: normalise and deduplicate the candidates by cve_id.       *)
(***************************************************************************)
\* Variants of the skip test: one that lets the sentinel through, one that
\* forgets the seen set.
SkipCandidateKeepSentinel(cve_id, seen_cves) ==
  Falsy(cve_id) \/ cve_id \in seen_cves

SkipCandidateNoDedup(cve_id, seen_cves) ==
  Falsy(cve_id) \/ cve_id = "N/A"

\* if not cve_id or cve_id == "N/A" or cve_id in seen_cves: continue
SkipCandidate(cve_id, seen_cves) ==
  Falsy(cve_id) \/ cve_id = "N/A" \/ cve_id \in seen_cves

\* The encoded link lists of the model: an empty list, a list of one link,
\* and two texts that are not JSON; None stands for a null payload.
EmptyJson == "[]"
OneLinkJson == "[{\"url\": \"https://example.org/1\", \"status\": \"valid\"}]"
TruncatedJson == "[{\"url\": \"https://exam"
JsonTexts == {NoValue, EmptyJson, OneLinkJson, TruncatedJson, "not json"}

\* json.loads on the texts of the model; None raises TypeError and a text
\* that is not JSON raises JSONDecodeError.
JsonLoads(text) ==
  CASE text = EmptyJson -> [ok |-> TRUE, value |-> <<>>]
    [] text = OneLinkJson ->
         [ok |-> TRUE,
          value |-> <<[url |-> "https://example.org/1", status |-> "valid"]>>]
    [] OTHER -> [ok |-> FALSE, value |-> <<>>]

\* try: json.loads(...) except Exception: []
LoadsOrEmpty(text) == IF JsonLoads(text).ok THEN JsonLoads(text).value ELSE <<>>

\* Variant with one try block around both fields.
DecodedLinksOneTry(exploits_json, fixes_json) ==
  IF JsonLoads(exploits_json).ok /\ JsonLoads(fixes_json).ok
  THEN [exploits |-> JsonLoads(exploits_json).value,
        fixes |-> JsonLoads(fixes_json).value]
  ELSE [exploits |-> <<>>, fixes |-> <<>>]

\* The two try blocks of _format_docs.
DecodedLinks(exploits_json, fixes_json) ==
  [exploits |-> LoadsOrEmpty(exploits_json), fixes |-> LoadsOrEmpty(fixes_json)]

RECURSIVE FormatLoop(_, _, _)
FormatLoop(docs, seen_cves, context_list) ==
  IF docs = <<>> THEN context_list
  ELSE LET metadata == MetadataOrEmpty(Head(docs))
           cve_id == metadata.cve_id
       IN IF SkipCandidate(cve_id, seen_cves)
          THEN FormatLoop(Tail(docs), seen_cves, context_list)
          ELSE FormatLoop(Tail(docs), seen_cves \cup {cve_id},
                          Append(context_list,
                                 [cve_id |-> cve_id,
                                  severity |-> metadata.severity,
                                  description |-> metadata.description,
                                  exploits |->
                                    DecodedLinks(metadata.exploits_json,
                                                 metadata.fixes_json).exploits,
                                  fixes |->
                                    DecodedLinks(metadata.exploits_json,
                                                 metadata.fixes_json).fixes]))

_format_docs(docs) == FormatLoop(docs, {}, <<>>)

(***************************************************************************)
(* Runtime scanner input.  A dictionary is a function on the keys it       *)
(* holds; None is the value PyNone.  runtime_data is None or a dictionary  *)
(* with some of the keys network, web_vulnerabilities, database_issues,    *)
(* auth_weaknesses; network is None or a dictionary with some of the keys  *)
(* open_ports, services.  The service table is keyed by the port written   *)
(* as a string; a port without an entry maps to NoValue.                   *)
(***************************************************************************)
PyNone == [none |-> TRUE]
EmptyDict == <<>>

\* d.get(key, default)
Get(d, key, default) == IF key \in DOMAIN d THEN d[key] ELSE default

Ports == {22, 80}
PortKeys == {"22", "80"}

\* str(port)
PortStr(port) == CASE port = 22 -> "22" [] port = 80 -> "80"

\* str(name).lower() on the service names of the model
Lower(name) ==
  CASE name = "HTTP" -> "http"
    [] name = "SSH" -> "ssh"
    [] OTHER -> name

WebServiceNames == {"http", "https", "http-proxy"}

NoServices == [k \in PortKeys |-> NoValue]

NoRuntime == PyNone

\* Port 80 announces "HTTP" (web-exposed) or nothing at all.
ExposedRuntime ==
  [network |->
     [open_ports |-> <<22, 80>>,
      services |-> [k \in PortKeys |-> IF k = "22" THEN "ssh" ELSE "HTTP"]]]

UnexposedRuntime ==
  [network |->
     [open_ports |-> <<22, 80>>,
      services |-> [k \in PortKeys |-> IF k = "22" THEN "SSH" ELSE NoValue]]]

RuntimeContexts == {NoRuntime, ExposedRuntime, UnexposedRuntime}

\* services.get(str(port), default)
ServiceGet(services, port, default) ==
  IF services[PortStr(port)] = NoValue THEN default
  ELSE services[PortStr(port)]

\* network_info.get(...) on a None network raises AttributeError.
RaisedContext == [raised |-> TRUE]

\* Variant that compares the announced name without lowering it.
IsWebPortCaseSensitive(services, port) ==
  ServiceGet(services, port, "") \in WebServiceNames

\* str(services.get(str(port), "")).lower() in {"http", "https", "http-proxy"}
IsWebPort(services, port) ==
  Lower(ServiceGet(services, port, "")) \in WebServiceNames

_build_runtime_context(runtime_data) ==
  LET data == IF runtime_data = PyNone THEN EmptyDict ELSE runtime_data
      network_info == Get(data, "network", EmptyDict)
  IN IF network_info = PyNone THEN RaisedContext
     ELSE
       LET open_ports == Get(network_info, "open_ports", <<>>)
           services == Get(network_info, "services", NoServices)
           web_ports == SelectSeq(open_ports,
                          LAMBDA port : IsWebPort(services, port))
       IN [raised |-> FALSE,
           is_exposed |-> web_ports # <<>>,
           exposed_ports |-> web_ports,
           exposed_services |->
             [i \in 1..Len(web_ports) |->
                ServiceGet(services, web_ports[i], "unknown")],
           web_vulnerabilities |-> Get(data, "web_vulnerabilities", <<>>),
           database_issues |-> Get(data, "database_issues", <<>>),
           auth_weaknesses |-> Get(data, "auth_weaknesses", <<>>),
           exploitable_vulnerabilities |-> <<>>]

(***************************************************************************)
(* _build_report.                                                          *)
(***************************************************************************)
\* Python's order on the severity strings (lexicographic on code points).
StrRank(s) ==
  CASE s = "CRITICAL" -> 1
    [] s = "HIGH" -> 2
    [] s = "LOW" -> 3
    [] s = "MEDIUM" -> 4
    [] s = "NONE" -> 5
    [] s = "UNKNOWN" -> 6

\* sorted(set_of_strings)
RECURSIVE sorted(_)
sorted(S) ==
  IF S = {} THEN <<>>
  ELSE LET least == CHOOSE x \in S : \A y \in S : StrRank(x) <= StrRank(y)
       IN <<least>> \o sorted(S \ {least})

\* next((doc for doc in docs
\*       if getattr(doc, "metadata", {}).get("cve_id") == "N/A"), None):
\* the scan stops at the first sentinel record; reading .get on a None
\* metadata before that raises AttributeError.
RECURSIVE CleanDocScan(_)
CleanDocScan(docs) ==
  IF docs = <<>> THEN "absent"
  ELSE IF Head(docs).meta = "none" THEN "raise"
  ELSE IF Head(docs).cve_id = "N/A" THEN "found"
  ELSE CleanDocScan(Tail(docs))

\* Variants of the status branch: one that tests only for an empty list,
\* one that joins the two tests with "and".
ReportStatusIgnoresMatch(docs, is_exact_match) ==
  IF docs = <<>> THEN "UNKNOWN"
  ELSE LET clean_doc == CleanDocScan(docs)
       IN IF clean_doc = "raise" THEN "raise"
          ELSE IF clean_doc = "found" THEN "CLEAN"
          ELSE "VULNERABLE"

ReportStatusAndForOr(docs, is_exact_match) ==
  IF docs # <<>> /\ ~is_exact_match THEN "UNKNOWN"
  ELSE LET clean_doc == CleanDocScan(docs)
       IN IF clean_doc = "raise" THEN "raise"
          ELSE IF clean_doc = "found" THEN "CLEAN"
          ELSE "VULNERABLE"

\* The status branch of _build_report.
ReportStatus(docs, is_exact_match) ==
  IF docs = <<>> \/ ~is_exact_match THEN "UNKNOWN"
  ELSE LET clean_doc == CleanDocScan(docs)
       IN IF clean_doc = "raise" THEN "raise"
          ELSE IF clean_doc = "found" THEN "CLEAN"
          ELSE "VULNERABLE"

\* Variant that keeps the severities in the order met, unsorted.
SeveritiesOfUnsorted(context_list) ==
  LET kept == SelectSeq(context_list, LAMBDA item : ~Falsy(item.severity))
  IN [i \in 1..Len(kept) |-> kept[i].severity]

\* sorted({item.get("severity", "UNKNOWN") for item in context_list
\*         if item.get("severity")})
SeveritiesOf(context_list) ==
  sorted({context_list[i].severity : i \in
            {j \in 1..Len(context_list) : ~Falsy(context_list[j].severity)}})

\* Variant that counts only CRITICAL as exploitable.
ExploitableVulnsCriticalOnly(runtime_context, context_list) ==
  IF runtime_context.is_exposed /\ context_list # <<>>
  THEN LET hits == SelectSeq(context_list,
                     LAMBDA vuln : vuln.severity = "CRITICAL")
       IN [i \in 1..Len(hits) |-> hits[i].cve_id]
  ELSE <<>>

\* [vuln.get("cve_id") for vuln in context_list
\*  if vuln.get("severity") in {"CRITICAL", "HIGH"}], when exposed
ExploitableVulns(runtime_context, context_list) ==
  IF runtime_context.is_exposed /\ context_list # <<>>
  THEN LET hits == SelectSeq(context_list,
                     LAMBDA vuln : vuln.severity \in {"CRITICAL", "HIGH"})
       IN [i \in 1..Len(hits) |-> hits[i].cve_id]
  ELSE <<>>

RaisedReport == [raised |-> TRUE]

\* report_summary_text: one of three templates, keyed by status, filled with
\* the package, the version and, for VULNERABLE, the count, the severities
\* and the number of exploitable vulnerabilities.
SummaryText(package, version, status, vuln_count, severities, exploitable_vulns) ==
  [kind |-> "summary",
   template |-> status,
   package |-> package,
   version |-> version,
   vuln_count |-> IF status = "VULNERABLE" THEN vuln_count ELSE 0,
   severities |-> IF status = "VULNERABLE" THEN severities ELSE <<>>,
   exploitable |-> IF status = "VULNERABLE" THEN Len(exploitable_vulns) ELSE 0]

_build_report(package, version, docs, runtime_data, is_exact_match) ==
  LET formatted == _format_docs(docs)
      status == ReportStatus(docs, is_exact_match)
      context_list == IF status = "UNKNOWN" THEN <<>> ELSE formatted
      vuln_count == IF status = "VULNERABLE" THEN Len(context_list) ELSE 0
      severities == IF status = "VULNERABLE" THEN SeveritiesOf(context_list)
                    ELSE <<>>
      docs_count == IF status = "UNKNOWN" THEN 0 ELSE Len(docs)
      correlated == _build_runtime_context(runtime_data)
      exploitable_vulns == ExploitableVulns(correlated, context_list)
      runtime_context ==
        [correlated EXCEPT !.exploitable_vulnerabilities = exploitable_vulns]
  IN IF status = "raise" \/ correlated.raised THEN RaisedReport
     ELSE [raised |-> FALSE,
           package |-> package,
           version |-> version,
           status |-> status,
           retrieved_docs_count |-> IF is_exact_match THEN docs_count ELSE 0,
           unique_vuln_count |-> vuln_count,
           severities_found |-> severities,
           all_vulnerabilities |-> context_list,
           runtime_exposure |-> runtime_context,
           exploitable_count |-> Len(exploitable_vulns),
           report_summary_text |->
             SummaryText(package, version, status, vuln_count, severities,
                         exploitable_vulns),
           found_in_database |-> is_exact_match]

(***************************************************************************)
(* VectorStoreService.similarity_search, one backend query per step.       *)
(***************************************************************************)
\* Variant that trusts the backend's filter.
VerifiedDocsUnfiltered(found, package_name) == found

\* [doc for doc in docs
\*  if getattr(doc, "metadata", {}).get("package_name") == package_name]
VerifiedDocs(found, package_name) ==
  SelectSeq(found, LAMBDA doc : doc.package_name = package_name)

\* Variant without the early exit: verified documents do not end the search.
TierOutcomeNoEarlyExit(resp, package_name) ==
  IF resp.error \/ \E doc \in Range(resp.docs) : doc.meta = "none"
  THEN [kind |-> "except", verified |-> <<>>]
  ELSE [kind |-> "fallthrough",
        verified |-> VerifiedDocs(resp.docs, package_name)]

\* One tier inside the try block: the backend call raising, or the
\* verification reading .get on a None metadata, lands in the except clause;
\* verified documents are returned; otherwise the code falls through.
TierOutcome(resp, package_name) ==
  IF resp.error \/ \E doc \in Range(resp.docs) : doc.meta = "none"
  THEN [kind |-> "except", verified |-> <<>>]
  ELSE LET verified_docs == VerifiedDocs(resp.docs, package_name)
       IN IF verified_docs # <<>>
          THEN [kind |-> "return", verified |-> verified_docs]
          ELSE [kind |-> "fallthrough", verified |-> <<>>]

VARIABLES
  pc,              \* position of the request being served
  store_ready,     \* VectorStoreService._store is not None
  request,         \* the package being analysed and its runtime context
  queries,         \* the backend queries issued for it, in order
  docs,            \* documents returned by similarity_search
  is_exact_match,  \* flag returned by similarity_search
  formatted,       \* _format_docs(docs) as computed first in _build_report
  report,          \* the structured report
  exposure,        \* _build_runtime_context(...) as computed in _build_report
  entry,           \* the route called and its input
  batch,           \* the AnalysisRequest handed to analyze_packages
  packages_to_process,  \* the packages kept after the max_packages cut
  pkg_index,             \* position of the loop in packages_to_process
  summaries,       \* the PackageSummary list built so far
  llm_loaded,      \* LocalLLM is enabled and its pipeline is loaded
  llm_calls,       \* the LLM.invoke calls made for the request, in order
  response,        \* what the route returned
  handlers,        \* the coroutine of each client's request on the event loop
  loop_owner       \* the client whose coroutine the event loop is running

batch_vars ==
  <<entry, batch, packages_to_process, pkg_index, summaries, llm_loaded, llm_calls,
    response>>

loop_vars == <<handlers, loop_owner>>

vars ==
  <<pc, store_ready, request, queries, docs, is_exact_match, formatted, report,
    exposure, batch_vars, loop_vars>>

\* Largest number of clients with a request at the same time.
MaxClients == 3

Clients == 1..MaxClients
NoHandler == [at |-> "none", remaining |-> 0, summarize |-> FALSE]

\* No request has arrived and the event loop runs nothing.
LoopIdle ==
  /\ handlers = [c \in Clients |-> NoHandler]
  /\ loop_owner = 0

NoExposure == [raised |-> FALSE, is_exposed |-> FALSE]
NoEntry == [kind |-> "none"]
NoBatch == [packages |-> <<>>]
NoResponse == [status |-> 0]

\* No batch request is being served.
BatchIdle ==
  /\ entry = NoEntry
  /\ batch = NoBatch
  /\ packages_to_process = <<>>
  /\ pkg_index = 0
  /\ summaries = <<>>
  /\ llm_calls = <<>>
  /\ response = NoResponse

NoRequest == [package |-> NoValue, version |-> NoValue, runtime_data |-> NoRuntime]
NoReport == [raised |-> FALSE, status |-> NoValue]

Requests ==
  [package : PackageNames, version : PackageVersions,
   runtime_data : RuntimeContexts]

Init ==
  /\ pc = "idle"
  /\ store_ready \in BOOLEAN
  /\ request = NoRequest
  /\ queries = <<>>
  /\ docs = <<>>
  /\ is_exact_match = FALSE
  /\ formatted = <<>>
  /\ report = NoReport
  /\ exposure = NoExposure
  /\ llm_loaded = FALSE
  /\ BatchIdle
  /\ LoopIdle

\* analyze_packages takes up one package.
Request ==
  /\ pc = "idle"
  /\ \E r \in Requests : request' = r
  /\ pc' = "search"
  /\ queries' = <<>>
  /\ docs' = <<>>
  /\ is_exact_match' = FALSE
  /\ formatted' = <<>>
  /\ report' = NoReport
  /\ exposure' = NoExposure
  /\ UNCHANGED <<loop_vars, store_ready, batch_vars>>

\* if not self._store: return [], False
SearchUnavailable ==
  /\ pc = "search"
  /\ ~store_ready
  /\ docs' = <<>>
  /\ is_exact_match' = FALSE
  /\ pc' = "searched"
  /\ UNCHANGED <<loop_vars, store_ready, request, queries, formatted, report, exposure,
                 batch_vars>>

\* Tier 1: filter on package_name and package_version.
SearchExact ==
  /\ pc = "search"
  /\ store_ready
  /\ \E resp \in BackendResponses :
       LET out == TierOutcome(resp, request.package)
       IN /\ queries' = Append(queries, [tier |-> "exact",
                                         error |-> resp.error,
                                         returned |-> Len(resp.docs),
                                         verified |-> out.verified])
          /\ docs' = out.verified
          /\ is_exact_match' = (out.kind = "return")
          /\ pc' = IF out.kind = "fallthrough" THEN "name_only" ELSE "searched"
  /\ UNCHANGED <<loop_vars, store_ready, request, formatted, report, exposure,
                 batch_vars>>

\* Tier 2: filter on package_name only.
SearchNameOnly ==
  /\ pc = "name_only"
  /\ \E resp \in BackendResponses :
       LET out == TierOutcome(resp, request.package)
       IN /\ queries' = Append(queries, [tier |-> "name_only",
                                         error |-> resp.error,
                                         returned |-> Len(resp.docs),
                                         verified |-> out.verified])
          /\ docs' = out.verified
          /\ is_exact_match' = (out.kind = "return")
          /\ pc' = "searched"
  /\ UNCHANGED <<loop_vars, store_ready, request, formatted, report, exposure,
                 batch_vars>>

\* report = _build_report(package, version, docs, runtime_context,
\*                        is_exact_match); an exception leaves the handler.
BuildReport ==
  /\ pc = "searched"
  /\ formatted' = _format_docs(docs)
  /\ report' = _build_report(request.package, request.version, docs,
                             request.runtime_data, is_exact_match)
  /\ exposure' = IF ReportStatus(docs, is_exact_match) = "raise" THEN exposure
                  ELSE _build_runtime_context(request.runtime_data)
  /\ pc' = IF report'.raised THEN "failed" ELSE "reported"
  /\ response' = IF report'.raised /\ entry # NoEntry THEN [status |-> 500]
                  ELSE response
  /\ UNCHANGED <<loop_vars, store_ready, request, queries, docs, is_exact_match, entry,
                 batch, packages_to_process, pkg_index, summaries, llm_loaded,
                 llm_calls>>

\* The response is returned and the service waits for the next request.
Respond ==
  /\ pc = "reported"
  /\ pc' = "idle"
  /\ UNCHANGED <<loop_vars, store_ready, request, queries, docs, is_exact_match,
                 formatted, report, exposure, batch_vars>>

Next ==
  \/ Request
  \/ SearchUnavailable
  \/ SearchExact
  \/ SearchNameOnly
  \/ BuildReport
  \/ Respond

Spec == Init /\ [][Next]_vars

(***************************************************************************)
(* _build_report on its own: every candidate list up to MaxDocs, every     *)
(* runtime context and both values of is_exact_match.                      *)
(***************************************************************************)
InitBuildReport ==
  /\ pc = "searched"
  /\ store_ready = TRUE
  /\ request \in [package : {"libpq5"}, version : PackageVersions,
                  runtime_data : RuntimeContexts]
  /\ queries = <<>>
  /\ docs \in SeqsUpTo(CandidateDocs, MaxDocs)
  /\ is_exact_match \in BOOLEAN
  /\ formatted = <<>>
  /\ report = NoReport
  /\ exposure = NoExposure
  /\ llm_loaded = FALSE
  /\ BatchIdle
  /\ LoopIdle

SpecBuildReport == InitBuildReport /\ [][BuildReport]_vars

(***************************************************************************)
(* Properties of _format_docs and _build_report (SpecBuildReport).         *)
(***************************************************************************)
Reported == pc = "reported"

\* cve_id of the i-th candidate as _format_docs reads it
CveOf(i) == MetadataOrEmpty(docs[i]).cve_id

RealCve(c) == c \in {"CVE-1", "CVE-2"}

\* C1: a report built with is_exact_match false has status UNKNOWN, no
\* vulnerabilities, unique_vuln_count 0 and found_in_database false, whatever
\* the candidates are, and building it never raises.
C1_NoExactMatchIsUnknown ==
  ~is_exact_match =>
    /\ pc # "failed"
    /\ Reported =>
         /\ report.status = "UNKNOWN"
         /\ report.all_vulnerabilities = <<>>
         /\ report.unique_vuln_count = 0
         /\ report.found_in_database = FALSE

\* A report was built without an exact match from candidates that carry a
\* real CVE.
C1_Witness ==
  /\ Reported
  /\ ~is_exact_match
  /\ \E i \in 1..Len(docs) : RealCve(docs[i].cve_id) /\ docs[i].severity = "CRITICAL"

\* C2: for an exact match with candidates, CLEAN only when the normalized
\* list is empty and a "N/A" record is among the candidates; candidates with
\* both a "N/A" record and a real CVE are VULNERABLE.
C2_CleanOnlyWithoutVulns ==
  (Reported /\ is_exact_match /\ docs # <<>>) =>
    /\ report.status = "CLEAN" =>
         /\ formatted = <<>>
         /\ \E i \in 1..Len(docs) : CveOf(i) = "N/A"
    /\ ((\E i \in 1..Len(docs) : CveOf(i) = "N/A") /\ formatted # <<>>) =>
         report.status = "VULNERABLE"

\* C3: exploitable_count > 0 implies status VULNERABLE and an exposed
\* runtime; an unexposed runtime gives exploitable_count 0 and no
\* exploitable vulnerabilities.
C3_ExploitableImpliesVulnerableExposed ==
  Reported =>
    /\ report.exploitable_count > 0 =>
         /\ report.status = "VULNERABLE"
         /\ report.runtime_exposure.is_exposed
    /\ ~report.runtime_exposure.is_exposed =>
         /\ report.exploitable_count = 0
         /\ report.runtime_exposure.exploitable_vulnerabilities = <<>>

\* Positions of the CRITICAL and HIGH records of a vulnerability list.
SevereIdx(vulns) ==
  {i \in 1..Len(vulns) : vulns[i].severity \in {"CRITICAL", "HIGH"}}

\* The k-th smallest element of a set of positions.
KthOf(idx, k) == CHOOSE i \in idx : Cardinality({j \in idx : j < i}) = k - 1

\* C4: when the status is VULNERABLE and the runtime is exposed,
\* exploitable_vulnerabilities is the cve_ids of the CRITICAL and HIGH
\* vulnerabilities in list order, and exploitable_count is its length.
C4_ExploitableInOrder ==
  (Reported /\ report.status = "VULNERABLE"
     /\ report.runtime_exposure.is_exposed) =>
    LET vulns == report.all_vulnerabilities
        idx == SevereIdx(vulns)
        out == report.runtime_exposure.exploitable_vulnerabilities
    IN /\ Len(out) = Cardinality(idx)
       /\ \A k \in 1..Len(out) : out[k] = vulns[KthOf(idx, k)].cve_id
       /\ report.exploitable_count = Len(out)

\* A HIGH then a CRITICAL vulnerability, after a LOW candidate, exposed.
C4_Witness ==
  /\ Reported
  /\ report.status = "VULNERABLE"
  /\ report.runtime_exposure.is_exposed
  /\ Len(docs) = 3
  /\ docs[1].severity = "LOW"
  /\ Len(report.all_vulnerabilities) = 2
  /\ report.all_vulnerabilities[1].severity = "HIGH"
  /\ report.runtime_exposure.exploitable_vulnerabilities = <<"CVE-2", "CVE-1">>

\* C5: the output of _format_docs holds no record whose cve_id is missing,
\* empty or "N/A".
C5_NoSentinelInFormatted ==
  pc \in {"reported", "failed"} =>
    \A i \in 1..Len(formatted) : formatted[i].cve_id \notin {NoValue, "", "N/A"}

\* Candidates with a "N/A" record, an empty cve_id and a real CVE were
\* normalized.
C5_Witness ==
  /\ Reported
  /\ formatted # <<>>
  /\ \E i \in 1..Len(docs) : docs[i].meta = "dict" /\ docs[i].cve_id = "N/A"
  /\ \E i \in 1..Len(docs) : docs[i].meta = "dict" /\ docs[i].cve_id = ""

\* First position among the candidates that carries cve_id c.
FirstWith(c) ==
  CHOOSE i \in 1..Len(docs) :
    /\ CveOf(i) = c
    /\ \A j \in 1..(i - 1) : CveOf(j) # c

\* C6: the cve_ids in the output of _format_docs are pairwise distinct, each
\* record is built from the first candidate with its cve_id, and the records
\* keep the order of those first occurrences.
C6_DedupFirstSeenStable ==
  pc \in {"reported", "failed"} =>
    /\ \A i, j \in 1..Len(formatted) :
         i # j => formatted[i].cve_id # formatted[j].cve_id
    /\ \A i \in 1..Len(formatted) :
         /\ \E k \in 1..Len(docs) : CveOf(k) = formatted[i].cve_id
         /\ formatted[i].severity =
              MetadataOrEmpty(docs[FirstWith(formatted[i].cve_id)]).severity
    /\ \A i, j \in 1..Len(formatted) :
         i < j => FirstWith(formatted[i].cve_id) < FirstWith(formatted[j].cve_id)

\* A CVE met twice with different severities, around another CVE.
C6_Witness ==
  /\ Reported
  /\ Len(docs) = 3
  /\ docs[1].cve_id = "CVE-2"
  /\ docs[2].cve_id = "CVE-1"
  /\ docs[3].cve_id = "CVE-2"
  /\ docs[1].severity # docs[3].severity
  /\ Len(formatted) = 2

\* C7: in a VULNERABLE report severities_found is in ascending order without
\* duplicates and holds exactly the non-empty severities of
\* all_vulnerabilities.
C7_SeveritiesSortedDistinct ==
  (Reported /\ report.status = "VULNERABLE") =>
    LET sev == report.severities_found
        vulns == report.all_vulnerabilities
    IN /\ \A i \in 1..(Len(sev) - 1) : StrRank(sev[i]) < StrRank(sev[i + 1])
       /\ Range(sev) =
            {vulns[i].severity : i \in 1..Len(vulns)} \ {NoValue, ""}

\* LOW listed before CRITICAL among the vulnerabilities.
C7_Witness ==
  /\ Reported
  /\ report.status = "VULNERABLE"
  /\ Len(report.all_vulnerabilities) = 2
  /\ report.all_vulnerabilities[1].severity = "LOW"
  /\ report.all_vulnerabilities[2].severity = "CRITICAL"
  /\ report.severities_found = <<"CRITICAL", "LOW">>

(***************************************************************************)
(* Properties of similarity_search and of the report built from its        *)
(* result (Spec).                                                          *)
(***************************************************************************)
Searched == pc \in {"searched", "reported"}

\* C8: whatever the backend answers, every document similarity_search
\* returns carries the queried package_name, and is_exact_match holds
\* exactly when the returned list is not empty.
C8_ReturnedDocsVerified ==
  Searched =>
    /\ \A i \in 1..Len(docs) :
         docs[i].meta = "dict" /\ docs[i].package_name = request.package
    /\ is_exact_match <=> docs # <<>>

\* The backend answered with more documents than passed verification.
C8_Witness ==
  /\ pc = "searched"
  /\ is_exact_match
  /\ \E k \in 1..Len(queries) :
       /\ queries[k].returned > Len(queries[k].verified)
       /\ queries[k].verified # <<>>

\* C9: a backend error in the name + version query counts as zero results
\* for that tier: the name-only query is still issued.
C9_NameOnlyTriedAfterExactError ==
  (Searched /\ Len(queries) >= 1 /\ queries[1].error) =>
    /\ Len(queries) = 2
    /\ queries[2].tier = "name_only"

NoTierVerified == \A k \in 1..Len(queries) : queries[k].verified = <<>>

\* C10: when the store is unavailable or no tier yields a verified
\* candidate, similarity_search returns ([], false) without raising and the
\* report is UNKNOWN, not found in the database, with no vulnerability and
\* no exploitable vulnerability.
C10_NoCandidateIsUnknown ==
  /\ pc # "failed"
  /\ (Searched /\ (~store_ready \/ NoTierVerified)) =>
       /\ docs = <<>>
       /\ is_exact_match = FALSE
       /\ Reported =>
            /\ report.status = "UNKNOWN"
            /\ report.found_in_database = FALSE
            /\ report.unique_vuln_count = 0
            /\ report.exploitable_count = 0

\* Both tiers were queried, the backend answered with documents of another
\* package, and the report was built.
C10_Witness ==
  /\ Reported
  /\ store_ready
  /\ Len(queries) = 2
  /\ queries[1].returned > 0
  /\ queries[2].returned > 0
  /\ NoTierVerified
  /\ report.status = "UNKNOWN"

(***************************************************************************)
(* The knowledge base behind the batch route: a backend that honours the   *)
(* filter it is given.  libpq5 is stored at the scanned version with two   *)
(* CVEs, openssl at the scanned version with a CVE whose metadata has no   *)
(* description, zlib only at another version.                              *)
(***************************************************************************)
\* Largest number of packages in one AnalysisRequest.
MaxBatch == 2

BatchPackageNames == PackageNames \cup {"zlib"}

KbDoc(name, version, cve, sev) ==
  [meta |-> "dict", package_name |-> name, package_version |-> version,
   cve_id |-> cve, severity |-> sev]

\* A description longer than the prompt's budget for one description.
LongDescription ==
  "A crafted authentication message lets a remote attacker read past the end of a heap buffer in the connection startup code and crash the server."

KnowledgeBase ==
  << KbDoc("libpq5", "9.6.10-0+deb9u1", "CVE-1", "LOW")
        @@ [description |-> "info leak"],
     KbDoc("libpq5", "9.6.10-0+deb9u1", "CVE-2", "CRITICAL")
        @@ [description |-> "buffer overflow"],
     KbDoc("libpq5", "9.6.10-0+deb9u1", "CVE-3", "HIGH")
        @@ [description |-> LongDescription],
     KbDoc("libpq5", "9.6.10-0+deb9u1", "CVE-4", "LOW")
        @@ [description |-> "denial of service"],
     KbDoc("openssl", "9.6.10-0+deb9u1", "CVE-1", "HIGH"),
     KbDoc("zlib", "1.2.8", "CVE-2", "HIGH")
        @@ [description |-> "out-of-bounds read"] >>

\* self._store.similarity_search(query, k=k, filter=...); version NoValue
\* is the name-only filter.
KbQuery(name, version) ==
  [error |-> FALSE,
   docs |-> SelectSeq(KnowledgeBase,
              LAMBDA doc : /\ doc.package_name = name
                           /\ (version = NoValue \/ doc.package_version = version))]

\* VectorStoreService.similarity_search as a whole, given what the backend
\* answers to the two queries.
similarity_search(ready, resp_exact, resp_name_only, package_name) ==
  IF ~ready THEN [docs |-> <<>>, is_exact_match |-> FALSE, tiers |-> <<>>]
  ELSE
    LET first == TierOutcome(resp_exact, package_name)
        second == TierOutcome(resp_name_only, package_name)
    IN IF first.kind # "fallthrough"
       THEN [docs |-> first.verified,
             is_exact_match |-> (first.kind = "return"),
             tiers |-> <<"exact">>]
       ELSE [docs |-> second.verified,
             is_exact_match |-> (second.kind = "return"),
             tiers |-> <<"exact", "name_only">>]

(***************************************************************************)
(* LocalLLM.invoke and _build_llm_prompt.                                  *)
(***************************************************************************)
LlmText(s) == [kind |-> "llm", text |-> s]

\* What the text-generation pipeline does with a prompt: it raises, or its
\* output stripped of the prompt is empty or a text.
PipelineOutcomes == {"raise", "", "A short summary."}

\* LocalLLM.invoke; outcome is read only when the pipeline is loaded.
LocalLLM_invoke(loaded, outcome) ==
  IF ~loaded THEN LlmText("LLM unavailable")
  ELSE IF outcome = "raise" THEN LlmText("LLM invocation failed")
  ELSE LlmText(outcome)

Min(a, b) == IF a < b THEN a ELSE b
Max(a, b) == IF a > b THEN a ELSE b

\* all_vulns[:3] and description[:100]
TopVulnCount == 3
DescriptionBudget == 100

\* Variant that lists every vulnerability.
TopVulnsAll(all_vulns) == all_vulns

\* top_vulns = all_vulns[:3] if all_vulns else []
TopVulns(all_vulns) == SubSeq(all_vulns, 1, Min(TopVulnCount, Len(all_vulns)))

\* desc[:100]
Cut(desc) == SubSeq(desc, 1, Min(DescriptionBudget, Len(desc)))

\* _build_llm_prompt: the top-3 loop, where v.get("description", "")[:100]
\* on a record whose description is None raises TypeError, and the runtime
\* sentences.
_build_llm_prompt(rep) ==
  LET top_vulns == TopVulns(rep.all_vulnerabilities)
      runtime == rep.runtime_exposure
  IN IF \E i \in 1..Len(top_vulns) : top_vulns[i].description = NoValue
     THEN [raised |-> TRUE]
     ELSE [raised |-> FALSE,
           package |-> rep.package,
           version |-> rep.version,
           status |-> rep.status,
           vuln_count |-> rep.unique_vuln_count,
           severities |-> rep.severities_found,
           vuln_lines |->
             [i \in 1..Len(top_vulns) |->
                [cve_id |-> top_vulns[i].cve_id,
                 severity |-> top_vulns[i].severity,
                 desc |-> Cut(top_vulns[i].description)]],
           network_exposure |->
             IF runtime.is_exposed /\ runtime.exposed_ports # <<>>
             THEN runtime.exposed_ports ELSE <<>>,
           exploitable_cves |-> Len(runtime.exploitable_vulnerabilities)]

\* Variant that summarizes whatever the option says.
SummarizeWithLlmAlways(options) == TRUE

\* if request.options.summarize_with_llm:
SummarizeWithLlm(options) == options.summarize_with_llm

\* Variant that takes any non-empty output as the summary.
ChooseSummaryAnyOutput(llm_output, summary_text) ==
  IF llm_output.text # "" THEN llm_output ELSE summary_text

\* if llm_output and llm_output != "LLM unavailable": llm_summary = llm_output
ChooseSummary(llm_output, summary_text) ==
  IF llm_output.text # "" /\ llm_output.text # "LLM unavailable"
  THEN llm_output
  ELSE summary_text

(***************************************************************************)
(* analyze_packages and analyze_single_package.                            *)
(***************************************************************************)
\* options.max_packages: None or an integer.
Cap(n) == [int |-> n]
MaxPackagesValues == {PyNone} \cup {Cap(n) : n \in -1..(MaxBatch + 1)}

PackageInputs ==
  [package : BatchPackageNames, version : PackageVersions,
   runtime_context : {PyNone, ExposedRuntime}]

AnalysisRequests ==
  [packages : SeqsUpTo(PackageInputs, MaxBatch),
   runtime_defaults : {EmptyDict, UnexposedRuntime},
   options : [summarize_with_llm : BOOLEAN, max_packages : MaxPackagesValues]]

\* The body of the legacy route: PackageInput with its own summarize flag.
SingleInputs ==
  [package : BatchPackageNames, version : PackageVersions,
   runtime_context : {PyNone, ExposedRuntime}, summarize_with_llm : BOOLEAN]

\* Variant that does not reject.
RejectsEmptyNever(packages) == FALSE

\* if not request.packages: raise HTTPException(status_code=400, ...)
RejectsEmpty(packages) == packages = <<>>

\* packages[:m] for an integer m
Slice(packages, m) ==
  IF m >= 0 THEN SubSeq(packages, 1, Min(m, Len(packages)))
  ELSE SubSeq(packages, 1, Max(Len(packages) + m, 0))

\* request.packages[: max_packages] if max_packages else request.packages
PackagesToProcess(packages, max_packages) ==
  IF max_packages # PyNone /\ max_packages.int # 0
  THEN Slice(packages, max_packages.int)
  ELSE packages

\* {**a, **b}
Merge(a, b) ==
  [k \in DOMAIN a \cup DOMAIN b |-> IF k \in DOMAIN b THEN b[k] ELSE a[k]]

\* Variant in which the defaults win.
PackageRuntimeContextDefaultsWin(runtime_defaults, package_runtime) ==
  LET defaults == IF runtime_defaults = PyNone THEN EmptyDict
                  ELSE runtime_defaults
  IN IF package_runtime = PyNone THEN defaults
     ELSE Merge(package_runtime, defaults)

\* Variant in which the context of the package before is the base of the
\* next one, as if the shared dictionary were updated in place.
PackageRuntimeContextCarriedOver(runtime_defaults, package_runtime) ==
  LET defaults == IF request.runtime_data # PyNone THEN request.runtime_data
                  ELSE IF runtime_defaults = PyNone THEN EmptyDict
                  ELSE runtime_defaults
  IN IF package_runtime = PyNone THEN defaults
     ELSE Merge(defaults, package_runtime)

\* runtime_context = request.runtime_defaults or {}; overlaid by the fields
\* set in package.runtime_context (dict(exclude_unset=True)).
PackageRuntimeContext(runtime_defaults, package_runtime) ==
  LET defaults == IF runtime_defaults = PyNone THEN EmptyDict
                  ELSE runtime_defaults
  IN IF package_runtime = PyNone THEN defaults
     ELSE Merge(defaults, package_runtime)

\* Variant that puts the newest summary first.
AppendSummaryFirst(list, summary) == <<summary>> \o list

\* summaries.append(PackageSummary(...))
AppendSummary(list, summary) == Append(list, summary)

\* Variant of the wrapper that leaves the runtime context out.
SingleToBatchNoRuntime(input) ==
  [packages |-> <<[package |-> input.package, version |-> input.version,
                   runtime_context |-> PyNone]>>,
   runtime_defaults |-> EmptyDict,
   options |-> [summarize_with_llm |-> input.summarize_with_llm,
                max_packages |-> PyNone]]

\* The AnalysisRequest analyze_single_package builds.
SingleToBatch(input) ==
  [packages |-> <<[package |-> input.package, version |-> input.version,
                   runtime_context |-> input.runtime_context]>>,
   runtime_defaults |-> EmptyDict,
   options |-> [summarize_with_llm |-> input.summarize_with_llm,
                max_packages |-> PyNone]]

PackageSummary(rep, llm_summary) ==
  [package |-> rep.package,
   version |-> rep.version,
   status |-> rep.status,
   unique_vuln_count |-> rep.unique_vuln_count,
   severities_found |-> rep.severities_found,
   runtime_exposure |-> rep.runtime_exposure,
   exploitable_count |-> rep.exploitable_count,
   llm_summary |-> llm_summary,
   structured_report |-> rep]

\* analyze_packages on a request with one package, as a function of what the
\* store, the model loader and the pipeline do.
AnalyzeOne(req, ready, loaded, outcome) ==
  LET package == req.packages[1]
      runtime_context == PackageRuntimeContext(req.runtime_defaults,
                                               package.runtime_context)
      found == similarity_search(ready,
                                 KbQuery(package.package, package.version),
                                 KbQuery(package.package, NoValue),
                                 package.package)
      rep == _build_report(package.package, package.version, found.docs,
                           runtime_context, found.is_exact_match)
  IN IF rep.raised THEN [raised |-> TRUE]
     ELSE IF SummarizeWithLlm(req.options) /\ _build_llm_prompt(rep).raised
     THEN [raised |-> TRUE]
     ELSE [raised |-> FALSE,
           structured_report |-> rep,
           llm_summary |->
             IF SummarizeWithLlm(req.options)
             THEN ChooseSummary(LocalLLM_invoke(loaded, outcome),
                                rep.report_summary_text)
             ELSE rep.report_summary_text]

\* The start of analyze_packages: the empty-list check and the cut.
StartBatch(req) ==
  /\ batch' = req
  /\ summaries' = <<>>
  /\ llm_calls' = <<>>
  /\ queries' = <<>>
  /\ docs' = <<>>
  /\ is_exact_match' = FALSE
  /\ formatted' = <<>>
  /\ report' = NoReport
  /\ exposure' = NoExposure
  /\ request' = NoRequest
  /\ pkg_index' = 1
  /\ IF RejectsEmpty(req.packages)
     THEN /\ response' = [status |-> 400]
          /\ packages_to_process' = <<>>
          /\ pc' = "done"
     ELSE /\ response' = NoResponse
          /\ packages_to_process' =
               PackagesToProcess(req.packages, req.options.max_packages)
          /\ pc' = IF packages_to_process' = <<>> THEN "respond" ELSE "package"
  /\ UNCHANGED <<loop_vars, store_ready, llm_loaded>>

\* POST /v1/analyze
Analyze ==
  /\ pc = "idle"
  /\ entry' = [kind |-> "batch"]
  /\ \E req \in AnalysisRequests : StartBatch(req)

\* POST /analyze
AnalyzeSingle ==
  /\ pc = "idle"
  /\ \E input \in SingleInputs :
       /\ entry' = [kind |-> "single", input |-> input]
       /\ StartBatch(SingleToBatch(input))

\* The head of the loop body: the runtime context of the package.
TakePackage ==
  /\ pc = "package"
  /\ LET package == packages_to_process[pkg_index]
     IN request' =
          [package |-> package.package,
           version |-> package.version,
           runtime_data |-> PackageRuntimeContext(batch.runtime_defaults,
                                                  package.runtime_context)]
  /\ pc' = "lookup"
  /\ UNCHANGED <<loop_vars, store_ready, queries, docs, is_exact_match, formatted, report,
                 exposure, batch_vars>>

\* docs, is_exact_match = VECTOR_SERVICE.similarity_search(...)
BatchSearch ==
  /\ pc = "lookup"
  /\ LET found == similarity_search(store_ready,
                                    KbQuery(request.package, request.version),
                                    KbQuery(request.package, NoValue),
                                    request.package)
     IN /\ docs' = found.docs
        /\ is_exact_match' = found.is_exact_match
        /\ queries' = queries \o
             [i \in 1..Len(found.tiers) |->
                [tier |-> found.tiers[i], package |-> request.package]]
  /\ pc' = "searched"
  /\ UNCHANGED <<loop_vars, store_ready, request, formatted, report, exposure, batch_vars>>

\* The loop moves on after summaries.append.
Advance(llm_summary) ==
  /\ summaries' = AppendSummary(summaries, PackageSummary(report, llm_summary))
  /\ pkg_index' = pkg_index + 1
  /\ pc' = IF pkg_index + 1 > Len(packages_to_process) THEN "respond"
           ELSE "package"

\* options.summarize_with_llm is false: the summary text is kept.
KeepSummary ==
  /\ pc = "reported"
  /\ ~SummarizeWithLlm(batch.options)
  /\ Advance(report.report_summary_text)
  /\ UNCHANGED <<loop_vars, store_ready, request, queries, docs, is_exact_match, formatted,
                 report, exposure, entry, batch, packages_to_process,
                 llm_loaded, llm_calls, response>>

\* _build_llm_prompt raises: nothing in analyze_packages catches it.
PromptFails ==
  /\ pc = "reported"
  /\ SummarizeWithLlm(batch.options)
  /\ _build_llm_prompt(report).raised
  /\ pc' = "failed"
  /\ response' = [status |-> 500]
  /\ UNCHANGED <<loop_vars, store_ready, request, queries, docs, is_exact_match, formatted,
                 report, exposure, entry, batch, packages_to_process, pkg_index,
                 summaries, llm_loaded, llm_calls>>

\* llm_output = LLM.invoke(_build_llm_prompt(report))
Narrate ==
  /\ pc = "reported"
  /\ SummarizeWithLlm(batch.options)
  /\ ~_build_llm_prompt(report).raised
  /\ \E outcome \in IF llm_loaded THEN PipelineOutcomes ELSE {"not called"} :
       LET llm_output == LocalLLM_invoke(llm_loaded, outcome)
       IN /\ llm_calls' = Append(llm_calls,
                                 [index |-> pkg_index, outcome |-> outcome,
                                  prompt |-> _build_llm_prompt(report),
                                  output |-> llm_output])
          /\ Advance(ChooseSummary(llm_output, report.report_summary_text))
  /\ UNCHANGED <<loop_vars, store_ready, request, queries, docs, is_exact_match, formatted,
                 report, exposure, entry, batch, packages_to_process,
                 llm_loaded, response>>

\* return AnalysisResponse(...); the legacy route unwraps packages[0].
RespondBatch ==
  /\ pc = "respond"
  /\ response' =
       IF entry.kind = "single"
       THEN [status |-> 200,
             structured_report |-> summaries[1].structured_report,
             llm_summary |-> summaries[1].llm_summary]
       ELSE [status |-> 200, packages |-> summaries]
  /\ pc' = "done"
  /\ UNCHANGED <<loop_vars, store_ready, request, queries, docs, is_exact_match, formatted,
                 report, exposure, entry, batch, packages_to_process, pkg_index,
                 summaries, llm_loaded, llm_calls>>

\* The request is over; nothing of it is kept.
Finish ==
  /\ pc \in {"done", "failed"}
  /\ pc' = "idle"
  /\ request' = NoRequest
  /\ queries' = <<>>
  /\ docs' = <<>>
  /\ is_exact_match' = FALSE
  /\ formatted' = <<>>
  /\ report' = NoReport
  /\ exposure' = NoExposure
  /\ entry' = NoEntry
  /\ batch' = NoBatch
  /\ packages_to_process' = <<>>
  /\ pkg_index' = 0
  /\ summaries' = <<>>
  /\ llm_calls' = <<>>
  /\ response' = NoResponse
  /\ UNCHANGED <<loop_vars, store_ready, llm_loaded>>

InitBatch ==
  /\ pc = "idle"
  /\ store_ready \in BOOLEAN
  /\ llm_loaded \in BOOLEAN
  /\ request = NoRequest
  /\ queries = <<>>
  /\ docs = <<>>
  /\ is_exact_match = FALSE
  /\ formatted = <<>>
  /\ report = NoReport
  /\ exposure = NoExposure
  /\ BatchIdle
  /\ LoopIdle

NextBatch ==
  \/ Analyze
  \/ AnalyzeSingle
  \/ TakePackage
  \/ BatchSearch
  \/ BuildReport
  \/ KeepSummary
  \/ PromptFails
  \/ Narrate
  \/ RespondBatch
  \/ Finish

SpecBatch == InitBatch /\ [][NextBatch]_vars

(***************************************************************************)
(* The loop body of analyze_packages on one package, over runtime          *)
(* dictionaries in which every field may be missing, null or set.          *)
(***************************************************************************)
Extend(d, k, v) == [key \in DOMAIN d \cup {k} |-> IF key = k THEN v ELSE d[key]]

\* The dictionaries of S0, and those with key k added with a value of Vals.
WithKey(S0, k, Vals) == S0 \cup {Extend(d, k, v) : d \in S0, v \in Vals}

\* Values of the "network" key: null, both tables, or one of them missing.
NetworkValues ==
  {PyNone,
   ExposedRuntime.network,
   UnexposedRuntime.network,
   [open_ports |-> <<80>>],
   [services |-> ExposedRuntime.network.services]}

RuntimeFields == {"network", "web_vulnerabilities", "database_issues"}

RuntimeDicts ==
  WithKey(WithKey(WithKey({EmptyDict},
                          "network", NetworkValues),
                  "web_vulnerabilities", {<<>>, <<"xss">>}),
          "database_issues", {<<"weak password">>})

InitRuntime ==
  /\ pc = "package"
  /\ store_ready \in BOOLEAN
  /\ llm_loaded = FALSE
  /\ request = NoRequest
  /\ queries = <<>>
  /\ docs = <<>>
  /\ is_exact_match = FALSE
  /\ formatted = <<>>
  /\ report = NoReport
  /\ exposure = NoExposure
  /\ entry = [kind |-> "batch"]
  /\ \E name \in BatchPackageNames, version \in PackageVersions,
        package_runtime \in RuntimeDicts \cup {PyNone},
        runtime_defaults \in RuntimeDicts \cup {PyNone} :
       batch = [packages |-> <<[package |-> name, version |-> version,
                                runtime_context |-> package_runtime]>>,
                runtime_defaults |-> runtime_defaults,
                options |-> [summarize_with_llm |-> FALSE,
                             max_packages |-> PyNone]]
  /\ packages_to_process = batch.packages
  /\ pkg_index = 1
  /\ summaries = <<>>
  /\ llm_calls = <<>>
  /\ response = NoResponse
  /\ LoopIdle

NextRuntime ==
  \/ TakePackage
  \/ BatchSearch
  \/ BuildReport

SpecRuntime == InitRuntime /\ [][NextRuntime]_vars

\* The package being processed and the two contexts it is given.
CurrentPackage == packages_to_process[pkg_index]
ContextFormed == pc \in {"lookup", "searched", "reported", "failed"}
Sets(d, field) == d # PyNone /\ field \in DOMAIN d

\* C16: the runtime context used for a package holds, for each top-level
\* field, the package's value when the package sets the field and the
\* runtime_defaults value otherwise (no value when neither sets it).
C16_PackageFieldsOverlayDefaults ==
  ContextFormed =>
    \A field \in RuntimeFields :
      LET own == CurrentPackage.runtime_context
          defaults == batch.runtime_defaults
          used == request.runtime_data
      IN IF Sets(own, field)
         THEN field \in DOMAIN used /\ used[field] = own[field]
         ELSE IF Sets(defaults, field)
         THEN field \in DOMAIN used /\ used[field] = defaults[field]
         ELSE field \notin DOMAIN used

\* The package and the defaults both set network, to different values, and
\* only the defaults set database_issues.
C16_Witness ==
  /\ ContextFormed
  /\ Sets(CurrentPackage.runtime_context, "network")
  /\ Sets(batch.runtime_defaults, "network")
  /\ CurrentPackage.runtime_context["network"] # batch.runtime_defaults["network"]
  /\ ~Sets(CurrentPackage.runtime_context, "database_issues")
  /\ Sets(batch.runtime_defaults, "database_issues")
  /\ request.runtime_data["network"] = CurrentPackage.runtime_context["network"]

\* The open ports of a runtime dictionary whose service name, lowered, is a
\* web service name.
HasWebPort(d) ==
  /\ Sets(d, "network")
  /\ d["network"] # PyNone
  /\ LET network == d["network"]
     IN /\ "open_ports" \in DOMAIN network
        /\ "services" \in DOMAIN network
        /\ \E i \in 1..Len(network.open_ports) :
             LET key == PortStr(network.open_ports[i])
             IN /\ key \in DOMAIN network.services
                /\ Lower(network.services[key]) \in {"http", "https", "http-proxy"}

\* C19: for every runtime context _build_runtime_context returns without
\* error; is_exposed holds exactly when an open port has a web service name
\* compared case-insensitively; without exposure exposed_ports and
\* exposed_services are empty.
C19_ExposureTotalAndExact ==
  (pc \in {"reported", "failed"}) =>
    /\ ~exposure.raised
    /\ exposure.is_exposed <=> HasWebPort(request.runtime_data)
    /\ ~exposure.is_exposed =>
         /\ exposure.exposed_ports = <<>>
         /\ exposure.exposed_services = <<>>

(***************************************************************************)
(* Properties of the batch route.                                          *)
(***************************************************************************)
\* A batch request is being served or has just been answered.
InBatch == entry # NoEntry

\* The summaries of the packages for which the generation was called.
Narrated(c) == llm_calls[c].index <= Len(summaries)
SummaryOfCall(c) == summaries[llm_calls[c].index]
Sentinels == {"LLM unavailable", "LLM invocation failed"}

\* C12: with summarize_with_llm enabled, when LLM.invoke returns
\* "LLM unavailable" the package's llm_summary is report_summary_text and
\* not the sentinel.
C12_UnavailableKeepsSummaryText ==
  \A c \in 1..Len(llm_calls) :
    (Narrated(c) /\ llm_calls[c].output.text = "LLM unavailable") =>
      /\ SummaryOfCall(c).llm_summary =
           SummaryOfCall(c).structured_report.report_summary_text
      /\ SummaryOfCall(c).llm_summary # LlmText("LLM unavailable")

\* A package of a batch with summarize_with_llm was summarized while the
\* model was not loaded.
C12_Witness ==
  /\ InBatch
  /\ batch.options.summarize_with_llm
  /\ ~llm_loaded
  /\ \E c \in 1..Len(llm_calls) :
       /\ Narrated(c)
       /\ llm_calls[c].output.text = "LLM unavailable"
       /\ SummaryOfCall(c).status = "VULNERABLE"

\* C13: with summarize_with_llm enabled, when the pipeline raises, the model
\* is unavailable or the result is empty, llm_summary is
\* report_summary_text, and no failure marker of LocalLLM.invoke is the
\* llm_summary.
C13_AnyFailureKeepsSummaryText ==
  \A c \in 1..Len(llm_calls) :
    Narrated(c) =>
      /\ (\/ llm_calls[c].outcome \in {"raise", ""}
          \/ llm_calls[c].output.text = "LLM unavailable") =>
           SummaryOfCall(c).llm_summary =
             SummaryOfCall(c).structured_report.report_summary_text
      /\ \A marker \in Sentinels : SummaryOfCall(c).llm_summary # LlmText(marker)

\* C14: a request with an empty packages list is answered with HTTP 400 and
\* no search, report or generation call has been made for it.
C14_EmptyBatchRejected ==
  (InBatch /\ batch.packages = <<>>) =>
    /\ response.status = 400
    /\ pc = "done"
    /\ queries = <<>>
    /\ report = NoReport
    /\ llm_calls = <<>>
    /\ summaries = <<>>

\* POST /v1/analyze with no packages has been answered.
C14_Witness ==
  /\ entry = [kind |-> "batch"]
  /\ batch.packages = <<>>
  /\ response.status = 400

\* C15: for every integer max_packages the packages processed are the first
\* min(max_packages, number of packages) of the input, in input order; all
\* of them when max_packages is not set.
C15_PrefixOfMinLength ==
  (InBatch /\ batch.packages # <<>>) =>
    LET cap == batch.options.max_packages
        n == Len(batch.packages)
    IN IF cap = PyNone THEN packages_to_process = batch.packages
       ELSE /\ Len(packages_to_process) = Min(cap.int, n)
            /\ \A i \in 1..Len(packages_to_process) :
                 packages_to_process[i] = batch.packages[i]

\* C17: an exception while one package of a batch is processed does not
\* leave analyze_packages: the call ends with one verdict per processed
\* package in input order, and a package whose processing failed has the
\* verdict UNKNOWN.
C17_PerPackageFailureContained ==
  (entry = [kind |-> "batch"] /\ batch.packages # <<>>) =>
    /\ pc # "failed"
    /\ response.status # 500
    /\ pc = "done" =>
         /\ response.status = 200
         /\ Len(response.packages) = Len(packages_to_process)
         /\ \A i \in 1..Len(packages_to_process) :
              /\ response.packages[i].package = packages_to_process[i].package
              /\ _build_llm_prompt(response.packages[i].structured_report).raised
                   => (batch.options.summarize_with_llm
                         => response.packages[i].status = "UNKNOWN")

\* C18: a successful analyze_packages call returns one verdict per processed
\* package, the i-th verdict carrying the package and version of the i-th
\* processed input package.
C18_VerdictsInInputOrder ==
  (entry = [kind |-> "batch"] /\ response.status = 200) =>
    /\ Len(response.packages) = Len(packages_to_process)
    /\ \A i \in 1..Len(packages_to_process) :
         /\ response.packages[i].package = packages_to_process[i].package
         /\ response.packages[i].version = packages_to_process[i].version
         /\ response.packages[i].structured_report.package =
              packages_to_process[i].package

\* A batch of two different packages has been answered.
C18_Witness ==
  /\ entry = [kind |-> "batch"]
  /\ response.status = 200
  /\ Len(response.packages) = 2
  /\ response.packages[1].package # response.packages[2].package

\* The one-element batch a caller of /v1/analyze would send for the input.
OneElementBatch(input) ==
  [packages |-> <<[package |-> input.package, version |-> input.version,
                   runtime_context |-> input.runtime_context]>>,
   runtime_defaults |-> EmptyDict,
   options |-> [summarize_with_llm |-> input.summarize_with_llm,
                max_packages |-> PyNone]]

\* What the pipeline did during the request, if it was called.
OutcomeSeen == IF llm_calls = <<>> THEN "not called" ELSE llm_calls[1].outcome

\* C20: analyze_single_package returns the structured_report and llm_summary
\* that analyze_packages returns for the one-element batch of the same
\* package, runtime context and summarize_with_llm setting.
C20_SingleIsOneElementBatch ==
  (entry # NoEntry /\ entry.kind = "single" /\ pc = "done") =>
    LET expected == AnalyzeOne(OneElementBatch(entry.input), store_ready,
                               llm_loaded, OutcomeSeen)
    IN /\ response.status = 200
       /\ ~expected.raised
       /\ response.structured_report = expected.structured_report
       /\ response.llm_summary = expected.llm_summary

\* The legacy route has answered for a vulnerable package with an exposed
\* runtime context and a generated narrative.
C20_Witness ==
  /\ entry # NoEntry
  /\ entry.kind = "single"
  /\ pc = "done"
  /\ entry.input.runtime_context = ExposedRuntime
  /\ entry.input.summarize_with_llm
  /\ response.structured_report.status = "VULNERABLE"
  /\ response.structured_report.runtime_exposure.is_exposed
  /\ response.llm_summary = LlmText("A short summary.")

(***************************************************************************)
(* The simple deployment profile (simple_rag_server): a package that is    *)
(* not in the master dataset is looked up in the vector store by three     *)
(* tiers, each in its own try block, and the documents are returned        *)
(* without a match flag and without verification.                          *)
(***************************************************************************)
SimpleRequests ==
  [package : PackageNames, version : PackageVersions, runtime_data : {NoRuntime}]

\* The status branch of simple_rag_server._build_report.
SimpleStatus(found) ==
  IF found = <<>> THEN "UNKNOWN"
  ELSE LET clean_doc == CleanDocScan(found)
       IN IF clean_doc = "raise" THEN "raise"
          ELSE IF clean_doc = "found" THEN "CLEAN"
          ELSE "VULNERABLE"

\* simple_rag_server._build_report(package, version, docs)
simple_build_report(package, version, found) ==
  LET context_list == _format_docs(found)
      status == SimpleStatus(found)
      vuln_count == IF status = "VULNERABLE" THEN Len(context_list) ELSE 0
      severities == IF status = "VULNERABLE" THEN SeveritiesOf(context_list)
                    ELSE <<>>
  IN IF status = "raise" THEN RaisedReport
     ELSE [raised |-> FALSE,
           package |-> package,
           version |-> version,
           status |-> status,
           retrieved_docs_count |-> Len(found),
           unique_vuln_count |-> vuln_count,
           severities_found |-> severities,
           all_vulnerabilities |-> context_list,
           report_summary_text |->
             [kind |-> "summary", template |-> "simple", package |-> package,
              version |-> version, status |-> status,
              vuln_count |-> vuln_count, severities |-> severities]]

\* One tier: documents are returned as they come; an exception or an empty
\* answer goes on to the tier after it.
SimpleTier(tier, after) ==
  \E resp \in BackendResponses :
    /\ queries' = Append(queries, [tier |-> tier, error |-> resp.error,
                                   returned |-> Len(resp.docs)])
    /\ docs' = resp.docs
    /\ pc' = IF resp.docs # <<>> THEN "simple_searched" ELSE after

\* POST /analyze for a package that is not in MASTER_INDEX.
SimpleRequest ==
  /\ pc = "idle"
  /\ \E req \in SimpleRequests : request' = req
  /\ queries' = <<>>
  /\ docs' = <<>>
  /\ formatted' = <<>>
  /\ report' = NoReport
  /\ pc' = IF store_ready THEN "simple_exact" ELSE "simple_searched"
  /\ UNCHANGED <<loop_vars, store_ready, is_exact_match, exposure, batch_vars>>

\* Tier 1: filter on package_name and package_version.
SimpleExact ==
  /\ pc = "simple_exact"
  /\ SimpleTier("exact", "simple_name_only")
  /\ UNCHANGED <<loop_vars, store_ready, request, is_exact_match, formatted, report,
                 exposure, batch_vars>>

\* Tier 2: filter on package_name only.
SimpleNameOnly ==
  /\ pc = "simple_name_only"
  /\ SimpleTier("name_only", "simple_broad")
  /\ UNCHANGED <<loop_vars, store_ready, request, is_exact_match, formatted, report,
                 exposure, batch_vars>>

\* Tier 3: similarity search without a filter.
SimpleBroad ==
  /\ pc = "simple_broad"
  /\ SimpleTier("broad", "simple_searched")
  /\ UNCHANGED <<loop_vars, store_ready, request, is_exact_match, formatted, report,
                 exposure, batch_vars>>

\* report = _build_report(query.package_name, query.version, docs)
SimpleBuildReport ==
  /\ pc = "simple_searched"
  /\ formatted' = _format_docs(docs)
  /\ report' = simple_build_report(request.package, request.version, docs)
  /\ pc' = IF report'.raised THEN "simple_failed" ELSE "simple_reported"
  /\ UNCHANGED <<loop_vars, store_ready, request, queries, docs, is_exact_match, exposure,
                 batch_vars>>

\* The response is returned, or the exception has left the handler.
SimpleRespond ==
  /\ pc \in {"simple_reported", "simple_failed"}
  /\ pc' = "idle"
  /\ UNCHANGED <<loop_vars, store_ready, request, queries, docs, is_exact_match,
                 formatted, report, exposure, batch_vars>>

NextSimple ==
  \/ SimpleRequest
  \/ SimpleExact
  \/ SimpleNameOnly
  \/ SimpleBroad
  \/ SimpleBuildReport
  \/ SimpleRespond

SpecSimple == Init /\ [][NextSimple]_vars

\* The documents in hand came from the filter-less search.
FromBroadSearch ==
  /\ queries # <<>>
  /\ queries[Len(queries)].tier = "broad"
  /\ docs # <<>>

\* C11: in the simple profile, candidates obtained only from the tier-3
\* broad search give a report with status UNKNOWN and an empty
\* vulnerability list, never VULNERABLE or CLEAN.
C11_BroadSearchIsUnknown ==
  (pc = "simple_reported" /\ FromBroadSearch) =>
    /\ report.status = "UNKNOWN"
    /\ report.all_vulnerabilities = <<>>

(***************************************************************************)
(* Further properties of the search, the report and the batch route.       *)
(***************************************************************************)
\* C25: the tiers run in a fixed order with early exit: the name-only query
\* is issued only after the name + version query yielded no verified
\* document, and verified documents of the name + version query are the
\* result with no further query.
C25_TiersInOrderWithEarlyExit ==
  /\ \A k \in 1..Len(queries) :
       /\ queries[k].tier = "exact" <=> k = 1
       /\ queries[k].tier = "name_only" =>
            /\ k = 2
            /\ queries[1].verified = <<>>
  /\ (queries # <<>> /\ queries[1].verified # <<>>) =>
       /\ Len(queries) = 1
       /\ pc # "name_only"
       /\ Searched => docs = queries[1].verified

\* The name + version query returned verified documents and the search is
\* over after that single query.
C25_Witness ==
  /\ pc = "searched"
  /\ Len(queries) = 1
  /\ queries[1].tier = "exact"
  /\ queries[1].verified # <<>>
  /\ docs = queries[1].verified

\* C28: in every report of _build_report, unique_vuln_count is the number of
\* records in all_vulnerabilities.
C28_CountIsListLength ==
  Reported => report.unique_vuln_count = Len(report.all_vulnerabilities)

\* C29: status VULNERABLE implies unique_vuln_count >= 1.
C29_VulnerableHasVulnerability ==
  Reported => (report.status = "VULNERABLE" => report.unique_vuln_count >= 1)

\* C30: when options.summarize_with_llm is false, LLM.invoke is not called
\* for any package and every llm_summary is the report_summary_text.
C30_NoSummarizeNoInvoke ==
  (InBatch /\ ~batch.options.summarize_with_llm) =>
    /\ llm_calls = <<>>
    /\ \A i \in 1..Len(summaries) :
         summaries[i].llm_summary =
           summaries[i].structured_report.report_summary_text

\* Two packages were summarized without the LLM while the model is loaded.
C30_Witness ==
  /\ InBatch
  /\ ~batch.options.summarize_with_llm
  /\ llm_loaded
  /\ Len(summaries) = 2
  /\ summaries[1].status = "VULNERABLE"

\* The verdict of the i-th processed package computed from that package, the
\* runtime_defaults, the options and the knowledge base alone.
OutcomeOf(i) ==
  IF \E c \in 1..Len(llm_calls) : llm_calls[c].index = i
  THEN llm_calls[CHOOSE c \in 1..Len(llm_calls) : llm_calls[c].index = i].outcome
  ELSE "not called"

VerdictFromInputs(i) ==
  LET package == packages_to_process[i]
      defaults == IF batch.runtime_defaults = PyNone THEN EmptyDict
                  ELSE batch.runtime_defaults
      context == IF package.runtime_context = PyNone THEN defaults
                 ELSE Merge(defaults, package.runtime_context)
      found == similarity_search(store_ready,
                                 KbQuery(package.package, package.version),
                                 KbQuery(package.package, NoValue),
                                 package.package)
      rep == _build_report(package.package, package.version, found.docs,
                           context, found.is_exact_match)
  IN PackageSummary(rep,
       IF batch.options.summarize_with_llm
       THEN ChooseSummary(LocalLLM_invoke(llm_loaded, OutcomeOf(i)),
                          rep.report_summary_text)
       ELSE rep.report_summary_text)

\* C23: the verdict of a package depends only on its name, version, runtime
\* context, the runtime_defaults and the options (and on what the knowledge
\* base and the generation answer for them), whatever packages precede it in
\* the batch or were analyzed before.
C23_VerdictDependsOnInputsOnly ==
  InBatch =>
    \A i \in 1..Len(summaries) : summaries[i] = VerdictFromInputs(i)

\* The second package of a batch has no runtime context of its own and
\* follows a package with an exposed one.
C23_Witness ==
  /\ InBatch
  /\ Len(summaries) = 2
  /\ batch.runtime_defaults = EmptyDict
  /\ packages_to_process[1].runtime_context = ExposedRuntime
  /\ packages_to_process[2].runtime_context = PyNone
  /\ summaries[1].runtime_exposure.is_exposed
  /\ ~summaries[2].runtime_exposure.is_exposed

\* C26: the prompt lists at most the first 3 vulnerabilities of the report,
\* each description cut to at most 100 characters, and has network-exposure
\* or exploitability text only when runtime_exposure.is_exposed is true.
C26_PromptBounded ==
  \A c \in 1..Len(llm_calls) :
    Narrated(c) =>
      LET prompt == llm_calls[c].prompt
          rep == SummaryOfCall(c).structured_report
      IN /\ Len(prompt.vuln_lines) <= 3
         /\ Len(prompt.vuln_lines) <= Len(rep.all_vulnerabilities)
         /\ \A k \in 1..Len(prompt.vuln_lines) :
              /\ prompt.vuln_lines[k].cve_id = rep.all_vulnerabilities[k].cve_id
              /\ Len(prompt.vuln_lines[k].desc) <= 100
         /\ (prompt.network_exposure # <<>> \/ prompt.exploitable_cves > 0) =>
              rep.runtime_exposure.is_exposed

\* A prompt was built for an exposed package with four vulnerabilities, one
\* of them with a description over 100 characters.
C26_Witness ==
  \E c \in 1..Len(llm_calls) :
    /\ Narrated(c)
    /\ Len(SummaryOfCall(c).structured_report.all_vulnerabilities) = 4
    /\ Len(llm_calls[c].prompt.vuln_lines) = 3
    /\ \E k \in 1..3 :
         /\ Len(SummaryOfCall(c).structured_report.all_vulnerabilities[k].description) > 100
         /\ Len(llm_calls[c].prompt.vuln_lines[k].desc) = 100
    /\ llm_calls[c].prompt.network_exposure # <<>>
    /\ llm_calls[c].prompt.exploitable_cves > 0

(***************************************************************************)
(* _format_docs on candidates that carry encoded exploit and fix lists.    *)
(***************************************************************************)
\* Largest number of candidates with link payloads.
MaxLinkDocs == 2

LinkDocs ==
  [meta : {"dict"}, package_name : {"libpq5"}, cve_id : {"N/A", "CVE-1", "CVE-2"},
   severity : {"HIGH"}, exploits_json : JsonTexts, fixes_json : JsonTexts]
  \cup [meta : {"dict"}, package_name : {"libpq5"}, cve_id : {"CVE-1"},
        severity : {"HIGH"}, fixes_json : JsonTexts]

InitFormat ==
  /\ pc = "searched"
  /\ store_ready = TRUE
  /\ request = [package |-> "libpq5", version |-> "9.6.10-0+deb9u1",
                runtime_data |-> NoRuntime]
  /\ queries = <<>>
  /\ docs \in SeqsUpTo(LinkDocs, MaxLinkDocs)
  /\ is_exact_match = TRUE
  /\ formatted = <<>>
  /\ report = NoReport
  /\ exposure = NoExposure
  /\ llm_loaded = FALSE
  /\ BatchIdle
  /\ LoopIdle

SpecFormat == InitFormat /\ [][BuildReport]_vars

\* The texts json.loads accepts, and what it makes of them.
Decodable(text) == text \in {EmptyJson, OneLinkJson}
LinksIn(text) ==
  IF text = OneLinkJson
  THEN <<[url |-> "https://example.org/1", status |-> "valid"]>>
  ELSE <<>>

\* The payload of a candidate, "[]" when the key is absent.
PayloadOf(i, key) == IF key \in DOMAIN docs[i] THEN docs[i][key] ELSE EmptyJson

\* The i-th candidate has a usable cve_id not met before it.
ValidUnseen(i) ==
  /\ RealCve(CveOf(i))
  /\ \A j \in 1..(i - 1) : CveOf(j) # CveOf(i)

\* C24: a candidate with a valid, unseen cve_id whose exploits_json or
\* fixes_json cannot be decoded still gives a record; the undecodable field
\* is an empty list, the other field is decoded on its own, and nothing is
\* raised.
C24_UndecodableLinksGiveEmptyList ==
  (pc \in {"reported", "failed"}) =>
    /\ pc # "failed"
    /\ \A i \in 1..Len(docs) :
         ValidUnseen(i) =>
           \E k \in 1..Len(formatted) :
             /\ formatted[k].cve_id = CveOf(i)
             /\ formatted[k].exploits =
                  IF Decodable(PayloadOf(i, "exploits_json"))
                  THEN LinksIn(PayloadOf(i, "exploits_json")) ELSE <<>>
             /\ formatted[k].fixes =
                  IF Decodable(PayloadOf(i, "fixes_json"))
                  THEN LinksIn(PayloadOf(i, "fixes_json")) ELSE <<>>

\* A candidate with a truncated exploits_json and a decodable, non-empty
\* fixes_json was normalised.
C24_Witness ==
  /\ pc = "reported"
  /\ \E i \in 1..Len(docs) :
       /\ ValidUnseen(i)
       /\ PayloadOf(i, "exploits_json") = TruncatedJson
       /\ PayloadOf(i, "fixes_json") = OneLinkJson
       /\ \E k \in 1..Len(formatted) :
            /\ formatted[k].cve_id = CveOf(i)
            /\ formatted[k].exploits = <<>>
            /\ formatted[k].fixes # <<>>

(***************************************************************************)
(* The master-dataset shortcut of simple_rag_server: a package found in    *)
(* MASTER_INDEX is reported from its record, without the vector store.     *)
(***************************************************************************)
\* Largest number of vulnerability entries in a dataset record.
MaxDatasetVulns == 2

DatasetEntries ==
  [cve_id : {NoValue, "N/A", "CVE-1", "CVE-2"},
   severity : {NoValue, "HIGH", "LOW"}]

DatasetRecords ==
  [package : PackageNames, installed_version : PackageVersions,
   vulnerabilities : SeqsUpTo(DatasetEntries, MaxDatasetVulns)]

\* simple_rag_server._build_report_from_dataset(record)
_build_report_from_dataset(record) ==
  LET vulns == record.vulnerabilities
      context_list ==
        [i \in 1..Len(vulns) |->
           [cve_id |-> vulns[i].cve_id,
            severity |-> vulns[i].severity,
            description |-> NoValue,
            exploits |-> <<>>,
            fixes |-> <<>>]]
      status == IF vulns # <<>> THEN "VULNERABLE" ELSE "CLEAN"
      vuln_count == Len(context_list)
      severities == SeveritiesOf(context_list)
  IN [raised |-> FALSE,
      package |-> record.package,
      version |-> record.installed_version,
      status |-> status,
      retrieved_docs_count |-> Len(context_list),
      unique_vuln_count |-> vuln_count,
      severities_found |-> severities,
      all_vulnerabilities |-> context_list,
      report_summary_text |->
        [kind |-> "summary", template |-> "simple",
         package |-> record.package, version |-> record.installed_version,
         status |-> status, vuln_count |-> vuln_count,
         severities |-> severities]]

\* POST /analyze for a package whose key is in MASTER_INDEX.
SimpleDataset ==
  /\ pc = "idle"
  /\ \E record \in DatasetRecords :
       /\ entry' = [kind |-> "dataset", record |-> record]
       /\ request' = [package |-> record.package,
                      version |-> record.installed_version,
                      runtime_data |-> NoRuntime]
       /\ report' = _build_report_from_dataset(record)
  /\ queries' = <<>>
  /\ docs' = <<>>
  /\ formatted' = <<>>
  /\ pc' = "simple_reported"
  /\ UNCHANGED <<loop_vars, store_ready, is_exact_match, exposure, batch,
                 packages_to_process, pkg_index, summaries, llm_loaded,
                 llm_calls, response>>

NextDataset ==
  \/ SimpleDataset
  \/ SimpleRespond

SpecDataset == Init /\ [][NextDataset]_vars

\* Exact-match candidates carrying the CVE entries of a dataset record.
CandidatesOf(record) ==
  [i \in 1..Len(record.vulnerabilities) |->
     [meta |-> "dict", package_name |-> record.package,
      cve_id |-> record.vulnerabilities[i].cve_id,
      severity |-> record.vulnerabilities[i].severity]]

CveIdsOf(list) == [i \in 1..Len(list) |-> list[i].cve_id]

\* C27: for a dataset record with vulnerability entries,
\* _build_report_from_dataset gives the status, unique_vuln_count,
\* severities_found and vulnerability list that _build_report gives for
\* exact-match candidates with the same entries.
C27_DatasetShortcutEquivalent ==
  (pc = "simple_reported" /\ entry.kind = "dataset"
     /\ entry.record.vulnerabilities # <<>>) =>
    LET expected == simple_build_report(entry.record.package,
                                        entry.record.installed_version,
                                        CandidatesOf(entry.record))
    IN /\ report.status = expected.status
       /\ report.unique_vuln_count = expected.unique_vuln_count
       /\ report.severities_found = expected.severities_found
       /\ CveIdsOf(report.all_vulnerabilities) =
            CveIdsOf(expected.all_vulnerabilities)

(***************************************************************************)
(* The legacy route with the two blocking calls made visible: the handler  *)
(* waits in self._store.similarity_search and in self._pipeline until the  *)
(* callee returns.  Nothing in the code bounds either wait.                *)
(***************************************************************************)
\* similarity_search begins: without a store it returns at once, otherwise
\* the backend is called.
CallStore ==
  /\ pc = "lookup"
  /\ IF store_ready
     THEN /\ pc' = "store_wait"
          /\ UNCHANGED <<queries, docs, is_exact_match>>
     ELSE /\ pc' = "searched"
          /\ docs' = <<>>
          /\ is_exact_match' = FALSE
          /\ UNCHANGED queries
  /\ UNCHANGED <<loop_vars, store_ready, request, formatted, report, exposure, batch_vars>>

\* The backend answers and similarity_search returns.
StoreReturns ==
  /\ pc = "store_wait"
  /\ LET found == similarity_search(store_ready,
                                    KbQuery(request.package, request.version),
                                    KbQuery(request.package, NoValue),
                                    request.package)
     IN /\ docs' = found.docs
        /\ is_exact_match' = found.is_exact_match
        /\ queries' = queries \o
             [i \in 1..Len(found.tiers) |->
                [tier |-> found.tiers[i], package |-> request.package]]
  /\ pc' = "searched"
  /\ UNCHANGED <<loop_vars, store_ready, request, formatted, report, exposure, batch_vars>>

\* LLM.invoke begins: without a pipeline it returns "LLM unavailable" at
\* once, otherwise the pipeline is called.
CallPipeline ==
  /\ pc = "reported"
  /\ SummarizeWithLlm(batch.options)
  /\ ~_build_llm_prompt(report).raised
  /\ IF llm_loaded
     THEN /\ pc' = "llm_wait"
          /\ UNCHANGED <<pkg_index, summaries, llm_calls>>
     ELSE LET llm_output == LocalLLM_invoke(FALSE, "not called")
          IN /\ llm_calls' = Append(llm_calls,
                                    [index |-> pkg_index,
                                     outcome |-> "not called",
                                     prompt |-> _build_llm_prompt(report),
                                     output |-> llm_output])
             /\ Advance(ChooseSummary(llm_output, report.report_summary_text))
  /\ UNCHANGED <<loop_vars, store_ready, request, queries, docs, is_exact_match, formatted,
                 report, exposure, entry, batch, packages_to_process,
                 llm_loaded, response>>

\* The pipeline returns or raises and LLM.invoke returns.
PipelineReturns ==
  /\ pc = "llm_wait"
  /\ \E outcome \in PipelineOutcomes :
       LET llm_output == LocalLLM_invoke(TRUE, outcome)
       IN /\ llm_calls' = Append(llm_calls,
                                 [index |-> pkg_index, outcome |-> outcome,
                                  prompt |-> _build_llm_prompt(report),
                                  output |-> llm_output])
          /\ Advance(ChooseSummary(llm_output, report.report_summary_text))
  /\ UNCHANGED <<loop_vars, store_ready, request, queries, docs, is_exact_match, formatted,
                 report, exposure, entry, batch, packages_to_process,
                 llm_loaded, response>>

NextWait ==
  \/ AnalyzeSingle
  \/ TakePackage
  \/ CallStore
  \/ StoreReturns
  \/ BuildReport
  \/ KeepSummary
  \/ PromptFails
  \/ CallPipeline
  \/ PipelineReturns
  \/ RespondBatch
  \/ Finish

\* Every step of the handler is taken when it can be; the store and the
\* pipeline are not bound to answer.
SpecWait ==
  /\ InitBatch
  /\ [][NextWait]_vars
  /\ WF_vars(TakePackage)
  /\ WF_vars(CallStore)
  /\ WF_vars(BuildReport)
  /\ WF_vars(KeepSummary)
  /\ WF_vars(PromptFails)
  /\ WF_vars(CallPipeline)
  /\ WF_vars(RespondBatch)
  /\ WF_vars(Finish)

\* C22: every package pipeline that starts eventually finishes, also when
\* the vector-store query or the generation call never returns: the wait is
\* bounded and ends in the degraded outcome.
C22_PipelineEventuallyFinishes ==
  (pc = "package") ~> (pc \in {"done", "failed"})

(***************************************************************************)
(* Requests arriving at the same time.  analyze_packages and               *)
(* analyze_single_package are coroutines (async def) without an await that *)
(* suspends: the event loop of the server process runs one of them from    *)
(* its first statement to its return before it takes up the next.          *)
(***************************************************************************)
service_vars ==
  <<pc, store_ready, request, queries, docs, is_exact_match, formatted, report,
    exposure, batch_vars>>

\* Variant in which a handler starts while another one is running, as for a
\* handler run in a worker thread.
CanDispatchAlways(owner) == TRUE

\* The event loop takes up a coroutine only when it is running none.
CanDispatch(owner) == owner = 0

SetHandler(c, handler) == handlers' = [handlers EXCEPT ![c] = handler]

\* A client sends a request with some packages.
Arrive(c) ==
  /\ handlers[c].at = "none"
  /\ \E n \in 1..MaxBatch, summarize \in BOOLEAN :
       SetHandler(c, [at |-> "queued", remaining |-> n, summarize |-> summarize])
  /\ UNCHANGED <<loop_owner, service_vars>>

\* The event loop starts the coroutine of the request.
Dispatch(c) ==
  /\ handlers[c].at = "queued"
  /\ CanDispatch(loop_owner)
  /\ SetHandler(c, [handlers[c] EXCEPT !.at = "running"])
  /\ loop_owner' = c
  /\ UNCHANGED service_vars

\* llm_output = LLM.invoke(...) is entered for the next package.
EnterInvoke(c) ==
  /\ handlers[c].at = "running"
  /\ handlers[c].remaining > 0
  /\ handlers[c].summarize
  /\ SetHandler(c, [handlers[c] EXCEPT !.at = "invoking"])
  /\ UNCHANGED <<loop_owner, service_vars>>

\* LLM.invoke returns and the loop body ends.
LeaveInvoke(c) ==
  /\ handlers[c].at = "invoking"
  /\ SetHandler(c, [handlers[c] EXCEPT !.at = "running",
                                       !.remaining = @ - 1])
  /\ UNCHANGED <<loop_owner, service_vars>>

\* A package is processed without the LLM.
SkipInvoke(c) ==
  /\ handlers[c].at = "running"
  /\ handlers[c].remaining > 0
  /\ ~handlers[c].summarize
  /\ SetHandler(c, [handlers[c] EXCEPT !.remaining = @ - 1])
  /\ UNCHANGED <<loop_owner, service_vars>>

\* The coroutine returns its response.
Return(c) ==
  /\ handlers[c].at = "running"
  /\ handlers[c].remaining = 0
  /\ SetHandler(c, NoHandler)
  /\ loop_owner' = IF loop_owner = c THEN 0 ELSE loop_owner
  /\ UNCHANGED service_vars

NextLoop ==
  \/ \E c \in Clients : Arrive(c)
  \/ \E c \in Clients : Dispatch(c)
  \/ \E c \in Clients : EnterInvoke(c)
  \/ \E c \in Clients : LeaveInvoke(c)
  \/ \E c \in Clients : SkipInvoke(c)
  \/ \E c \in Clients : Return(c)

SpecLoop == Init /\ [][NextLoop]_vars

\* The clients whose request is inside LocalLLM.invoke.
InFlight == {c \in Clients : handlers[c].at = "invoking"}

\* C21: whatever the interleaving of requests that arrive at the same time,
\* at most one call of LocalLLM.invoke is in flight.
C21_OneInvokeInFlight == Cardinality(InFlight) <= 1

\* A call of LocalLLM.invoke is in flight while the requests of two other
\* clients that ask for summaries have arrived and wait.
C21_Witness ==
  /\ Cardinality(InFlight) = 1
  /\ Cardinality({c \in Clients : /\ handlers[c].at = "queued"
                                  /\ handlers[c].summarize}) = 2

====
